---- MODULE Spec2Model ----
(***************************************************************************)
(* Bootstrap confidence-interval estimation of baseline/TestModel.py:      *)
(* bootstrap() (lines 134-142), bootstrap_iter() (lines 121-131) and the   *)
(* non-daemonic worker pool MyPool / NoDaemonProcess (lines 105-118).      *)
(*                                                                         *)
(* Tables (pandas DataFrames) are sequences of rows; a row keeps its index *)
(* label and its filename.  Metric values are integers (a metric in units  *)
(* of its smallest step) and the statistics are computed exactly, as       *)
(* rationals: floating-point rounding is not part of the model.            *)
(***************************************************************************)
EXTENDS Integers, Sequences, FiniteSets, TLC

VARIABLES
    pred,           \* bootstrap() argument: [is_list, tables]
    gtruth,         \* bootstrap() argument: the groundtruth table
    metric,         \* bootstrap() argument: which metric function is passed
    n_iterations,   \* bootstrap() argument
    frac,           \* bootstrap() argument, in tenths
    confidence,     \* bootstrap() argument, in percent
    cpu_count,      \* multiprocessing.cpu_count()
    pc,             \* where the bootstrap() call is
    pool_state,     \* Pool._state: "none" before the pool exists, RUN, CLOSE
    workers,        \* the pool's worker processes
    taskqueue,      \* chunks (and stop sentinels) the workers take from
    outqueue,       \* chunk results on their way to the result handler
    number_left,    \* MapResult._number_left
    map_success,    \* MapResult._success
    map_value,      \* MapResult._value on success
    map_error,      \* MapResult._value on failure: the first exception stored
    sentinels_sent, \* the worker handler has told the workers to stop
    ncalls,         \* number of metric calls per iteration index
    ran_by,         \* the worker that ran each iteration index
    raised,         \* the errors the metric function has raised
    last_call,      \* arguments and outcome of the latest metric call
    result          \* what bootstrap() gives back to its caller

vars == <<pred, gtruth, metric, n_iterations, frac, confidence, cpu_count, pc,
          pool_state, workers, taskqueue, outqueue, number_left, map_success,
          map_value, map_error, sentinels_sent, ncalls, ran_by, raised,
          last_call, result>>

inputs == <<pred, gtruth, metric, n_iterations, frac, confidence, cpu_count>>

(***************************************************************************)
(* Bounds of the model.                                                    *)
(***************************************************************************)
MaxCpu == 3         \* largest cpu_count()
MaxIter == 3        \* largest n_iterations with several workers
NFiles == 2         \* filenames a groundtruth table draws from
GtRows == 2         \* rows of a groundtruth table
PredRows == 3       \* rows of a prediction table
MaxK == 2           \* tables of a multi-threshold prediction list
MaxUnique == 10     \* unique filenames in the sampling specification
MaxResults == 4     \* largest n_iterations with one worker

(***************************************************************************)
(* Arithmetic.                                                             *)
(***************************************************************************)
Max(a, b) == IF a >= b THEN a ELSE b
Min(a, b) == IF a <= b THEN a ELSE b
Abs(a) == IF a >= 0 THEN a ELSE -a

\* a / b rounded to the nearest integer, ties to the even one (Python's round())
RoundHalfEven(a, b) ==
    LET q == a \div b
        r == a % b
    IN  IF 2 * r > b \/ (2 * r = b /\ q % 2 = 1) THEN q + 1 ELSE q

RECURSIVE np_sum(_)
np_sum(a) == IF a = <<>> THEN 0 ELSE a[1] + np_sum(Tail(a))

\* np.mean: the sum over the count, kept as a fraction
np_mean(a) == [num |-> np_sum(a), den |-> Len(a)]

(***************************************************************************)
(* np.percentile with linear interpolation, on a sorted sequence.  The     *)
(* rank is given in 200ths of the index range (twice the percent), and the *)
(* value comes back multiplied by Scale, so that it stays an integer.      *)
(***************************************************************************)
Scale == 200

np_percentile(a, q) ==
    LET pos == q * (Len(a) - 1)
        lo  == pos \div Scale
        rem == pos % Scale
        hi  == Min(lo + 1, Len(a) - 1)
    IN  Scale * a[lo + 1] + rem * (a[hi + 1] - a[lo + 1])

\* ((1 - confidence) / 2) * 100, doubled
LowerQ_precedence(conf) == 200 - conf
LowerQ(conf) == 100 - conf

\* (confidence + ((1 - confidence) / 2)) * 100, doubled
UpperQ(conf) == 2 * conf + (100 - conf)

sort(a) == SortSeq(a, LAMBDA x, y: x < y)

(***************************************************************************)
(* Tables and filename sampling (bootstrap_iter).                          *)
(***************************************************************************)
MkTable(fnames) == [k \in 1..Len(fnames) |-> [idx |-> k - 1, filename |-> fnames[k]]]

filename(table) == [k \in 1..Len(table) |-> table[k].filename]

RECURSIVE drop_duplicates(_)
drop_duplicates(names) ==
    IF names = <<>> THEN <<>>
    ELSE LET head == drop_duplicates(SubSeq(names, 1, Len(names) - 1))
             x    == names[Len(names)]
         IN  IF \E k \in 1..Len(head) : head[k] = x THEN head ELSE Append(head, x)

\* pandas: n = round(frac * axis_length), frac in tenths
sample_size_truncating(fr, n) == (fr * n) \div 10
sample_size(fr, n) == RoundHalfEven(fr * n, 10)

Pick(names, S) ==
    LET F[k \in 0..Len(names)] ==
            IF k = 0 THEN <<>>
            ELSE IF k \in S THEN Append(F[k - 1], names[k]) ELSE F[k - 1]
    IN  F[Len(names)]

\* a draw with replacement: any names, in the order of the series
sample_with_replacement(names, fr) ==
    LET n == sample_size(fr, Len(names))
    IN  { [k \in 1..n |-> names[c[k]]] :
            c \in { d \in [1..n -> 1..Len(names)] :
                      \A k \in 1..(n - 1) : d[k] <= d[k + 1] } }

\* Series.sample(frac=frac): n of the names, drawn without replacement.  The
\* order of the draw is not kept: isin() is all that reads the result.
sample(names, fr) ==
    LET n == sample_size(fr, Len(names))
    IN  { Pick(names, S) : S \in { T \in SUBSET (1..Len(names)) : Cardinality(T) = n } }

isin(name, names_kept) == \E k \in 1..Len(names_kept) : names_kept[k] = name

\* df[df.filename.isin(names_kept)]
filter_unfiltered(table, names_kept) == table
filter(table, names_kept) ==
    SelectSeq(table, LAMBDA row : isin(row.filename, names_kept))

\* lines 123-128: a list of tables is filtered table by table, in order
filter_pred_reversed(p, names_kept) ==
    [k \in 1..Len(p.tables) |-> filter(p.tables[Len(p.tables) + 1 - k], names_kept)]
filter_pred(p, names_kept) ==
    [k \in 1..Len(p.tables) |-> filter(p.tables[k], names_kept)]

(***************************************************************************)
(* The metric function passed to bootstrap(): an outcome is a value or an  *)
(* error.  "det" is a deterministic metric that does not depend on the row *)
(* order and is undefined without groundtruth rows; "opaque" is any        *)
(* function at all.                                                        *)
(***************************************************************************)
NoError == <<>>
MetricError(index) == <<"MetricError", index>>
ValueError == <<"ValueError", -1>>

Value(v) == [raised |-> FALSE, value |-> v, error |-> NoError]
Raise(e) == [raised |-> TRUE, value |-> 0, error |-> e]

RECURSIVE RowCount(_)
RowCount(tables) ==
    IF tables = <<>> THEN 0
    ELSE Len(tables[1]) + RowCount(SubSeq(tables, 2, Len(tables)))

MetricValues == {0, 1}

DetMetric(pred_bt, gt_bt, index) ==
    IF gt_bt = <<>> THEN Raise(MetricError(index))
    ELSE Value(Len(gt_bt) + 2 * RowCount(pred_bt))

MetricOutcomes(m, pred_bt, gt_bt, index) ==
    IF m = "det" THEN {DetMetric(pred_bt, gt_bt, index)}
    ELSE {Value(v) : v \in MetricValues} \cup {Raise(MetricError(index))}

\* lines 130-131: m = metric(...); return m.  An error of the metric is not caught.
bootstrap_iter_swallowing(outcome) == IF outcome.raised THEN Value(0) ELSE outcome
bootstrap_iter_return(outcome) == outcome

NoCall == [index |-> -1, worker |-> 0, names_kept |-> <<>>, pred_bt |-> <<>>,
           gt_bt |-> <<>>, outcome |-> Value(0)]

\* the calls one run of bootstrap_iter can make
bootstrap_iter(w, index) ==
    { [index |-> index, worker |-> w, names_kept |-> names_kept,
       pred_bt |-> filter_pred(pred, names_kept),
       gt_bt |-> filter(gtruth, names_kept), outcome |-> o] :
        <<names_kept, o>> \in
          UNION { {names} \X MetricOutcomes(metric, filter_pred(pred, names),
                                           filter(gtruth, names), index) :
                    names \in sample(drop_duplicates(filename(gtruth)), frac) } }

(***************************************************************************)
(* NoDaemonProcess (lines 105-112) and the pool's workers.  config_daemon  *)
(* is the flag multiprocessing.Process keeps in _config and reads when the *)
(* process starts a child: daemonic processes may not have children.       *)
(***************************************************************************)
NoTask == [i |-> -1, items |-> <<>>]

\* multiprocessing.Process(): the flag is inherited from the creating process
Process == [alive |-> FALSE, config_daemon |-> FALSE, daemon_set |-> FALSE,
            task |-> NoTask, done |-> <<>>]

\* line 107-108
_get_daemon(self) == FALSE

\* line 110-111
_set_daemon_storing(self, value) ==
    [self EXCEPT !.config_daemon = value, !.daemon_set = TRUE]
_set_daemon(self, value) == [self EXCEPT !.daemon_set = TRUE]

MayHaveChildren(self) == ~self.config_daemon

\* Pool._repopulate_pool: w = self.Process(...); w.daemon = True; w.start()
StartWorker == [_set_daemon(Process, TRUE) EXCEPT !.alive = TRUE]

(***************************************************************************)
(* pool.map(bt_iter, range(n_iterations)) (line 137).  The pool is that of *)
(* CPython 3.7, the last version in which setting the class attribute      *)
(* Process (line 118) is how a pool is given its process class: map waits  *)
(* for every chunk before it returns or raises, and close() only marks the *)
(* pool closed.                                                            *)
(***************************************************************************)
PoolFactor == 4

\* range(n_iterations)
range_from_one(n) == [k \in 1..(n - 1) |-> k]
range(n) == [k \in 1..n |-> k - 1]

\* Pool._map_async: chunksize, extra = divmod(len(iterable), len(pool) * 4)
chunksize(n, nproc) ==
    (n \div (nproc * PoolFactor)) + (IF n % (nproc * PoolFactor) # 0 THEN 1 ELSE 0)

\* Pool._get_tasks: the iterable cut into chunks of chunksize items
get_tasks(iterable, size) ==
    LET nchunks == IF size = 0 THEN 0 ELSE (Len(iterable) + size - 1) \div size
    IN  [c \in 1..nchunks |->
           [kind |-> "task", i |-> c - 1,
            items |-> SubSeq(iterable, (c - 1) * size + 1, Min(c * size, Len(iterable)))]]

Stop == [kind |-> "stop", i |-> -1, items |-> <<>>]

NoneVal == -1

\* MapResult._set: self._value[i*chunksize:(i+1)*chunksize] = result
SetSlice(value, i, size, res) ==
    [k \in 1..Len(value) |->
       IF k > i * size /\ k <= i * size + Len(res) THEN res[k - i * size] ELSE value[k]]

NoResult == [kind |-> "none", mean_val |-> [num |-> 0, den |-> 1], lower |-> 0, upper |-> 0, error |-> NoError]

(***************************************************************************)
(* Initial states: the arguments of one bootstrap() call.                  *)
(***************************************************************************)
Single(table) == [is_list |-> FALSE, tables |-> <<table>>]
List(tables) == [is_list |-> TRUE, tables |-> tables]

Tables(len, files) == { MkTable(f) : f \in [1..len -> files] }

InitWith(cpus, iters, fracs, confs, gts, preds, metrics) ==
    /\ cpu_count \in cpus
    /\ n_iterations \in iters
    /\ frac \in fracs
    /\ confidence \in confs
    /\ gtruth \in gts
    /\ pred \in preds
    /\ metric \in metrics
    /\ pc = "start"
    /\ pool_state = "none"
    /\ workers = <<>>
    /\ taskqueue = <<>>
    /\ outqueue = <<>>
    /\ number_left = 0
    /\ map_success = TRUE
    /\ map_value = <<>>
    /\ map_error = NoError
    /\ sentinels_sent = FALSE
    /\ ncalls = [k \in 0..(n_iterations - 1) |-> 0]
    /\ ran_by = [k \in 0..(n_iterations - 1) |-> 0]
    /\ raised = {}
    /\ last_call = NoCall
    /\ result = NoResult

(***************************************************************************)
(* bootstrap(), up to the point where pool.map blocks (lines 135-137).     *)
(***************************************************************************)
\* MyPool(multiprocessing.cpu_count() - 1)
processes(cpus) == cpus - 1

BootstrapCall ==
    /\ pc = "start"
    /\ processes(cpu_count) >= 1
    /\ LET nproc == processes(cpu_count)
           size  == chunksize(Len(range(n_iterations)), nproc)
           tasks == get_tasks(range(n_iterations), size)
       IN  /\ workers' = [w \in 1..nproc |-> StartWorker]
           /\ taskqueue' = tasks
           /\ number_left' = Len(tasks)
           /\ map_value' = [k \in 1..n_iterations |-> NoneVal]
    /\ pool_state' = "RUN"
    /\ pc' = "mapping"
    /\ UNCHANGED <<inputs, outqueue, map_success, map_error, sentinels_sent,
                   ncalls, ran_by, raised, last_call, result>>

\* Pool.__init__: processes < 1 raises ValueError before any worker exists
BootstrapCallFails ==
    /\ pc = "start"
    /\ processes(cpu_count) < 1
    /\ pc' = "raised"
    /\ result' = [NoResult EXCEPT !.kind = "raise", !.error = ValueError]
    /\ UNCHANGED <<inputs, pool_state, workers, taskqueue, outqueue, number_left,
                   map_success, map_value, map_error, sentinels_sent, ncalls,
                   ran_by, raised, last_call>>

(***************************************************************************)
(* A worker process (multiprocessing.pool.worker).                         *)
(***************************************************************************)
WorkerGetTask(w) ==
    /\ workers[w].alive
    /\ workers[w].task = NoTask
    /\ taskqueue # <<>>
    /\ Head(taskqueue).kind = "task"
    /\ workers' = [workers EXCEPT ![w].task =
                     [i |-> Head(taskqueue).i, items |-> Head(taskqueue).items],
                   ![w].done = <<>>]
    /\ taskqueue' = Tail(taskqueue)
    /\ UNCHANGED <<inputs, pc, pool_state, outqueue, number_left, map_success,
                   map_value, map_error, sentinels_sent, ncalls, ran_by, raised,
                   last_call, result>>

\* the stop sentinel ends the worker
WorkerExit(w) ==
    /\ workers[w].alive
    /\ workers[w].task = NoTask
    /\ taskqueue # <<>>
    /\ Head(taskqueue).kind = "stop"
    /\ workers' = [workers EXCEPT ![w].alive = FALSE]
    /\ taskqueue' = Tail(taskqueue)
    /\ UNCHANGED <<inputs, pc, pool_state, outqueue, number_left, map_success,
                   map_value, map_error, sentinels_sent, ncalls, ran_by, raised,
                   last_call, result>>

\* mapstar: one call of bt_iter, i.e. bootstrap_iter (lines 121-131), on the next
\* index of the worker's chunk; an error ends the chunk
WorkerIter(w) ==
    /\ workers[w].alive
    /\ workers[w].task # NoTask
    /\ LET task  == workers[w].task
           index == task.items[Len(workers[w].done) + 1]
       IN  \E call \in bootstrap_iter(w, index) :
             LET ret  == bootstrap_iter_return(call.outcome)
                 done == Append(workers[w].done, ret.value)
             IN  /\ last_call' = call
                 /\ ncalls' = [ncalls EXCEPT ![index] = @ + 1]
                 /\ ran_by' = [ran_by EXCEPT ![index] = w]
                 /\ raised' = IF call.outcome.raised
                              THEN raised \cup {call.outcome.error} ELSE raised
                 /\ IF ret.raised
                    THEN /\ outqueue' = Append(outqueue,
                                [i |-> task.i, success |-> FALSE, value |-> <<>>,
                                 error |-> ret.error])
                         /\ workers' = [workers EXCEPT ![w].task = NoTask,
                                                       ![w].done = <<>>]
                    ELSE IF Len(done) = Len(task.items)
                    THEN /\ outqueue' = Append(outqueue,
                                [i |-> task.i, success |-> TRUE, value |-> done,
                                 error |-> NoError])
                         /\ workers' = [workers EXCEPT ![w].task = NoTask,
                                                       ![w].done = <<>>]
                    ELSE /\ outqueue' = outqueue
                         /\ workers' = [workers EXCEPT ![w].done = done]
    /\ UNCHANGED <<inputs, pc, pool_state, taskqueue, number_left, map_success,
                   map_value, map_error, sentinels_sent, result>>

(***************************************************************************)
(* The pool's result handler: MapResult._set on the next chunk result.     *)
(***************************************************************************)
HandleResult ==
    /\ outqueue # <<>>
    /\ LET r == Head(outqueue)
       IN  /\ number_left' = number_left - 1
           /\ IF r.success /\ map_success
              THEN /\ map_value' = SetSlice(map_value, r.i,
                                       chunksize(Len(range(n_iterations)), Len(workers)),
                                       r.value)
                   /\ UNCHANGED <<map_success, map_error>>
              ELSE IF ~r.success /\ map_success
              THEN /\ map_success' = FALSE
                   /\ map_error' = r.error
                   /\ UNCHANGED map_value
              ELSE UNCHANGED <<map_success, map_value, map_error>>
    /\ outqueue' = Tail(outqueue)
    /\ UNCHANGED <<inputs, pc, pool_state, workers, taskqueue, sentinels_sent,
                   ncalls, ran_by, raised, last_call, result>>

(***************************************************************************)
(* bootstrap(), from the return of pool.map on (lines 137-142).  closing() *)
(* calls pool.close() on the way out of the with block, on both paths.     *)
(***************************************************************************)
BootstrapReturn ==
    /\ pc = "mapping"
    /\ number_left = 0
    /\ map_success
    /\ pool_state' = "CLOSE"
    /\ LET result_metrics == sort(map_value)
       IN  result' = [kind |-> "return",
                      mean_val |-> np_mean(result_metrics),
                      lower |-> np_percentile(result_metrics, LowerQ(confidence)),
                      upper |-> np_percentile(result_metrics, UpperQ(confidence)),
                      error |-> NoError]
    /\ pc' = "returned"
    /\ UNCHANGED <<inputs, workers, taskqueue, outqueue, number_left, map_success,
                   map_value, map_error, sentinels_sent, ncalls, ran_by, raised,
                   last_call>>

BootstrapRaise ==
    /\ pc = "mapping"
    /\ number_left = 0
    /\ ~map_success
    /\ pool_state' = "CLOSE"
    /\ result' = [NoResult EXCEPT !.kind = "raise", !.error = map_error]
    /\ pc' = "raised"
    /\ UNCHANGED <<inputs, workers, taskqueue, outqueue, number_left, map_success,
                   map_value, map_error, sentinels_sent, ncalls, ran_by, raised,
                   last_call>>

(***************************************************************************)
(* The pool's worker handler: once the pool is closed and no job is left,  *)
(* it has one stop sentinel sent to every worker.                          *)
(***************************************************************************)
HandleWorkers ==
    /\ pool_state = "CLOSE"
    /\ number_left = 0
    /\ ~sentinels_sent
    /\ taskqueue' = taskqueue \o [w \in 1..Len(workers) |-> Stop]
    /\ sentinels_sent' = TRUE
    /\ UNCHANGED <<inputs, pc, pool_state, workers, outqueue, number_left,
                   map_success, map_value, map_error, ncalls, ran_by, raised,
                   last_call, result>>

Next ==
    \/ BootstrapCall
    \/ BootstrapCallFails
    \/ \E w \in DOMAIN workers : WorkerGetTask(w)
    \/ \E w \in DOMAIN workers : WorkerIter(w)
    \/ \E w \in DOMAIN workers : WorkerExit(w)
    \/ HandleResult
    \/ BootstrapReturn
    \/ BootstrapRaise
    \/ HandleWorkers

(***************************************************************************)
(* Specifications.  All run the same program; they differ in the arguments *)
(* of the call.                                                            *)
(*   Spec        several workers and chunks, default fraction/confidence   *)
(*   SpecStats   one worker, many results and confidence levels            *)
(*   SpecIter    one iteration over many tables and fractions              *)
(*   SpecSample  one iteration over many numbers of unique filenames       *)
(***************************************************************************)
DefaultFrac == 8
DefaultConfidence == 90
FullFrac == 10

\* a table of len rows over the filenames 1..nfiles, in turn
SomeTable(len, nfiles) == MkTable([k \in 1..len |-> ((k - 1) % nfiles) + 1])

\* an iteration count that needs chunks of more than one index
ManyIter == PoolFactor + 1

Init ==
    \/ InitWith(1..MaxCpu, 1..MaxIter, {DefaultFrac}, {DefaultConfidence},
                {SomeTable(GtRows, NFiles)},
                {Single(SomeTable(PredRows, NFiles + 1))},
                {"det", "opaque"})
    \/ InitWith({2}, {ManyIter}, {DefaultFrac}, {DefaultConfidence},
                {SomeTable(GtRows, NFiles)},
                {Single(SomeTable(PredRows, NFiles + 1))},
                {"det", "opaque"})

Spec == Init /\ [][Next]_vars

InitStats ==
    InitWith({1, 2}, 1..MaxResults, {FullFrac}, {10, 50, DefaultConfidence},
             Tables(GtRows, 1..NFiles),
             {Single(t) : t \in Tables(1, 1..(NFiles + 1))},
             {"det", "opaque"})

SpecStats == InitStats /\ [][Next]_vars

TableLists ==
    UNION { { List(l) : l \in [1..k -> Tables(1, 1..(NFiles + 1))] } : k \in 1..MaxK }

InitIter ==
    InitWith({1, 2}, {1}, {0, 5, DefaultFrac, FullFrac}, {DefaultConfidence},
             Tables(GtRows, 1..NFiles),
             {Single(t) : t \in Tables(PredRows, 1..(NFiles + 1))} \cup TableLists,
             {"det", "opaque"})

SpecIter == InitIter /\ [][Next]_vars

InitSample ==
    InitWith({1, 2}, {1}, 0..FullFrac, {DefaultConfidence},
             { MkTable([k \in 1..u |-> k]) : u \in 1..MaxUnique } \cup Tables(GtRows, 1..NFiles),
             {Single(SomeTable(PredRows, NFiles + 1))},
             {"det"})

SpecSample == InitSample /\ [][Next]_vars

(***************************************************************************)
(* Properties.                                                             *)
(***************************************************************************)
Done == pc \in {"returned", "raised"}
Called == last_call # NoCall

NameSet(names) == { names[k] : k \in 1..Len(names) }
GtFiles == NameSet(filename(gtruth))
Kept == NameSet(last_call.names_kept)

RowSet(table) == { table[k] : k \in 1..Len(table) }

\* bt holds exactly the rows of table whose filename is in S, in table order
IsRestriction(bt, table, S) ==
    /\ RowSet(bt) = { r \in RowSet(table) : r.filename \in S }
    /\ \A a, b \in 1..Len(bt) : a < b => bt[a].idx < bt[b].idx

MinOf(a) == CHOOSE x \in NameSet(a) : \A y \in NameSet(a) : x <= y
MaxOf(a) == CHOOSE x \in NameSet(a) : \A y \in NameSet(a) : x >= y

C2_WorkersGoneAtExit ==
    Done => \A w \in DOMAIN workers : ~workers[w].alive

\* C3: if the metric function raises in some iteration, bootstrap() ends by
\* raising that error: it returns no triple and runs no iteration twice.
C3_FailFast ==
    /\ \A k \in DOMAIN ncalls : ncalls[k] <= 1
    /\ (pc = "returned" => raised = {} /\ result.kind = "return")
    /\ (pc = "raised" /\ raised # {} =>
          /\ result.kind = "raise"
          /\ result.error \in raised)
    /\ (pc = "mapping" /\ number_left = 0 /\ raised # {} => ~map_success)

C3_Witness ==
    /\ pc = "raised"
    /\ n_iterations >= 3
    /\ Cardinality(raised) = 1
    /\ \A k \in DOMAIN ncalls : ncalls[k] = 1

\* C4: when no metric call raises, every iteration index 0..N-1 is run exactly
\* once, by one worker: N metric calls in all.
C4_EachIndexOnce ==
    /\ DOMAIN ncalls = 0..(n_iterations - 1)
    /\ \A k \in DOMAIN ncalls : ncalls[k] <= 1
    /\ (pc = "returned" =>
          /\ \A k \in 0..(n_iterations - 1) :
                ncalls[k] = 1 /\ ran_by[k] \in DOMAIN workers
          /\ np_sum([k \in 1..n_iterations |-> ncalls[k - 1]]) = n_iterations)

C4_Witness ==
    /\ pc = "returned"
    /\ \E j, k \in DOMAIN ran_by : ran_by[j] = 1 /\ ran_by[k] = 2

\* C5: the tables passed to the metric function hold exactly the rows of the
\* input tables whose filename is in the drawn subset, itself a subset of the
\* groundtruth filenames; prediction rows of other filenames are dropped, and
\* that is no error.
C5_OnlyKeptRows ==
    Called =>
        /\ Kept \subseteq GtFiles
        /\ IsRestriction(last_call.gt_bt, gtruth, Kept)
        /\ \A t \in 1..Len(pred.tables) :
              IsRestriction(last_call.pred_bt[t], pred.tables[t], Kept)
        /\ (metric = "det" /\ last_call.gt_bt # <<>> => ~last_call.outcome.raised)

C5_Witness ==
    /\ Called
    /\ ~pred.is_list
    /\ \E r \in RowSet(pred.tables[1]) : r.filename \notin GtFiles
    /\ \E r \in RowSet(pred.tables[1]) : r.filename \in GtFiles \ Kept
    /\ last_call.pred_bt[1] # <<>>
    /\ ~last_call.outcome.raised

\* C6: the pool has max(1, cpu_count - 1) workers; with a single core it has one
\* worker and bootstrap() runs.
C6_PoolSize ==
    pc # "start" =>
        /\ Len(workers) = Max(1, cpu_count - 1)
        /\ result.error # ValueError

\* C7: the drawn filenames are distinct filenames of groundtruth, and there are
\* round(fraction * number of unique filenames) of them (ties to even): 8 of 10
\* for fraction 0.8.
C7_SampleSize ==
    Called =>
        LET n == Len(last_call.names_kept)
            u == Cardinality(GtFiles)
        IN  /\ Cardinality(Kept) = n
            /\ Kept \subseteq GtFiles
            /\ Abs(10 * n - frac * u) <= 5
            /\ (Abs(10 * n - frac * u) = 5 => n % 2 = 0)
            /\ (u = 10 /\ frac = 8 => n = 8)

C7_Witness ==
    /\ Called
    /\ Cardinality(GtFiles) = 10
    /\ frac = 8
    /\ Len(last_call.names_kept) = 8

\* the predictions restricted to the groundtruth filenames
OnGtFiles(p) ==
    [t \in 1..Len(p.tables) |->
        SelectSeq(p.tables[t], LAMBDA r : r.filename \in GtFiles)]

\* C8 as stated: with fraction 1.0 and a deterministic metric, every result is the
\* metric on the full data and mean = lower_bound = upper_bound = that value.
C8_FullSampleExact ==
    pc = "returned" /\ frac = FullFrac /\ metric = "det" =>
        LET v == DetMetric(pred.tables, gtruth, 0).value
        IN  /\ \A k \in 1..n_iterations : map_value[k] = v
            /\ result.mean_val.num = v * result.mean_val.den
            /\ result.lower = Scale * v
            /\ result.upper = Scale * v

\* C8 amended: with fraction 1.0 every subset is the whole set of groundtruth
\* filenames; for a deterministic metric every result is the metric on the
\* groundtruth and the predictions restricted to the groundtruth filenames,
\* and mean = lower_bound = upper_bound = that value.
C8_FullSample ==
    /\ (Called /\ frac = FullFrac =>
          /\ Kept = GtFiles
          /\ last_call.gt_bt = gtruth
          /\ last_call.pred_bt = OnGtFiles(pred))
    /\ (pc = "returned" /\ frac = FullFrac /\ metric = "det" =>
          LET v == DetMetric(OnGtFiles(pred), gtruth, 0).value
          IN  /\ \A k \in 1..n_iterations : map_value[k] = v
              /\ result.lower = Scale * v
              /\ result.upper = Scale * v
              /\ result.mean_val.num = v * result.mean_val.den)

C8_Witness ==
    /\ pc = "returned"
    /\ frac = FullFrac
    /\ metric = "det"
    /\ n_iterations >= 3
    /\ Cardinality(GtFiles) >= 2
    /\ \E r \in RowSet(pred.tables[1]) : r.filename \in GtFiles

\* C9 (state part): for a list of K tables the metric function gets K tables, the
\* i-th being the i-th input table restricted to the one drawn subset.
C9_Restricted ==
    Called /\ pred.is_list =>
        /\ Len(last_call.pred_bt) = Len(pred.tables)
        /\ \A t \in 1..Len(pred.tables) :
              /\ NameSet(filename(last_call.pred_bt[t])) \subseteq Kept
              /\ IsRestriction(last_call.pred_bt[t], pred.tables[t], Kept)

\* C9: in multi-threshold mode one iteration passes the metric function exactly
\* K tables, the i-th the i-th input table restricted to the same drawn subset,
\* and the input tables are never modified.
C9_SameSubsetEveryTable ==
    [] C9_Restricted /\ [][pred' = pred /\ gtruth' = gtruth]_vars

C9_Witness ==
    /\ Called
    /\ pred.is_list
    /\ Len(pred.tables) >= 2
    /\ last_call.pred_bt[1] # <<>>
    /\ last_call.pred_bt[2] = <<>>
    /\ pred.tables[2][1].filename \in GtFiles

\* C10: every worker of the pool is non-daemonic all its life: its daemon
\* attribute reads False, setting it changes nothing, and the worker may start
\* child processes.
C10_NeverDaemon ==
    \A w \in DOMAIN workers :
        /\ _get_daemon(workers[w]) = FALSE
        /\ MayHaveChildren(workers[w])
        /\ _get_daemon(_set_daemon(workers[w], TRUE)) = FALSE
        /\ MayHaveChildren(_set_daemon(workers[w], TRUE))

C10_Witness ==
    \E w \in DOMAIN workers : workers[w].alive /\ workers[w].daemon_set

====
